---- MODULE Spec2Model ----
(***************************************************************************)
(* Model of the Blinkt! driver for the Raspberry Pi 5 (src/blinkt_pi5.py)  *)
(* and of the status daemon that drives it (src/blinkt_status.py).         *)
(*                                                                         *)
(* The pixel buffer is modelled with its object identity: the Python list  *)
(* `pixels` holds references, and line 24 puts the same inner list in      *)
(* every slot.  A brightness fraction is a rational <<num, den>>; an       *)
(* optional argument is <<>> (None) or <<value>>.  Every lgpio call the    *)
(* driver makes is recorded as an event, so that the signal on the two     *)
(* pins is what the checked properties read.                               *)
(***************************************************************************)
EXTENDS Integers, Sequences, FiniteSets, TLC

\* ---------------------------------------------------------------- bounds
\* API calls the client process makes before it ends
MaxCalls == 2
\* Buffer calls a client that never shows makes
MaxOps == 3

\* ------------------------------------------------------------- constants
DAT == 23
CLK == 24
NUM_PIXELS == 8
BRIGHTNESS == 7

None == <<>>
Some(v) == <<v>>

VARIABLES
    pixels,         \* blinkt_pi5.pixels: slot -> reference to an inner list
    heap,           \* the inner lists: reference -> <<r, g, b, brightness>>
    gpio_setup,     \* blinkt_pi5._gpio_setup
    clear_on_exit,  \* blinkt_pi5._clear_on_exit
    handle,         \* blinkt_pi5._handle: None or Some(h)
    registered,     \* how many times atexit.register(_exit) was called
    opened,         \* lgpio: number of chip handles opened so far (ids 1..opened)
    closes,         \* lgpio: handle id -> number of gpiochip_close calls on it
    lines,          \* lgpio: the <<handle, pin>> lines currently claimed
    proc,           \* the process: "running", "atexit" (handlers ran), "finished"
    calls,          \* API calls made so far
    last,           \* the most recent API call and how it ended
    wire,           \* the lgpio events of the most recent show() or exit hook
    latched,        \* what the LED chain shows: the pixel frames last clocked in
    nShow,          \* show() calls so far, the exit hook's included
    nFrames,        \* full transmissions completed so far
    nInit,          \* per init step, how many times it has been performed
    failed,         \* whether some GPIO call has raised so far
    hookRuns,       \* how many times the exit hook has run
    pc,             \* blinkt_status: the line main() is at ("none": no daemon)
    running,        \* blinkt_status._running
    handlers,       \* the signals whose handler is _signal_handler
    tick,           \* the _ of the wait loop of line 111
    pending,        \* the pin writes the show() in progress has still to make
    retTo,          \* where the show() in progress returns to
    sigAt,          \* where main() was when a signal first reached the handler
    probed          \* what the connectivity query of the latest round came back with

drvVars == <<pixels, heap, gpio_setup, clear_on_exit, handle, registered>>
envVars == <<opened, closes, lines>>
obsVars == <<wire, latched, nShow, nFrames, nInit, failed, hookRuns>>
cliVars == <<proc, calls, last, nShow, nFrames, nInit>>
dmnVars == <<pc, running, handlers, tick, pending, retTo, sigAt, probed>>
vars == <<pixels, heap, gpio_setup, clear_on_exit, handle, registered,
          opened, closes, lines, proc, calls, last,
          wire, latched, nShow, nFrames, nInit, failed, hookRuns,
          pc, running, handlers, tick, pending, retTo, sigAt, probed>>

\* ------------------------------------------------------------ the buffer
Slots == 0 .. NUM_PIXELS - 1

\* References: 0 is the one list that line 24 replicates; Own(x) is the list
\* a set_pixel(x, ...) allocates, reachable from slot x only.
Shared == 0
Own(x) == x + 1
Refs == 0 .. NUM_PIXELS

DefaultPixel == <<0, 0, 0, BRIGHTNESS>>

\* The pixel a slot refers to
Pixel(x) == heap[pixels[x]]

\* Python list indexing: -N .. N-1 are valid, a negative index counts from the end
ValidIndex(x) == x >= -NUM_PIXELS /\ x < NUM_PIXELS
Index(x) == IF x < 0 THEN x + NUM_PIXELS ELSE x

\* int(v) of a rational <<n, d>>, d > 0: truncation toward zero
IntOf(n, d) == IF n >= 0 THEN n \div d ELSE -((-n) \div d)

\* int(31.0 * brightness) & 0b11111
Quantize(f) == IntOf(31 * f[1], f[2]) % 32

\* brightness < 0 or brightness > 1
OutOfRange(f) == f[1] < 0 \/ f[1] > f[2]

\* ------------------------------------------------------------- the wire
Ev(op, a, b) == [op |-> op, a |-> a, b |-> b]
Write(pin, level) == Ev("write", pin, level)

\* _write_byte: for x in range(8): DAT <- bit 7, CLK high, byte <<= 1, CLK low
RECURSIVE write_byte_loop(_, _)
write_byte_loop(byte, x) ==
    IF x = 8 THEN <<>>
    ELSE << Write(DAT, IF (byte \div 128) % 2 = 1 THEN 1 ELSE 0),
            Write(CLK, 1),
            Write(CLK, 0) >> \o write_byte_loop(byte * 2, x + 1)

write_byte(byte) == write_byte_loop(byte, 0)

\* n clock pulses
RECURSIVE Pulses(_)
Pulses(n) == IF n = 0 THEN <<>> ELSE <<Write(CLK, 1), Write(CLK, 0)>> \o Pulses(n - 1)

\* eof with the count the source's comment gives for the other IC: pixels / 2
eof_half == <<Write(DAT, 0)>> \o Pulses(NUM_PIXELS \div 2)

eof == <<Write(DAT, 0)>> \o Pulses(36)

sof == <<Write(DAT, 0)>> \o Pulses(32)

\* 0b11100000 | brightness, for brightness in 0 .. 31
FlagByte(brightness) == 224 + (brightness % 32)

\* the channels sent red first
PixelBytes_rgb(pixel) ==
    write_byte(FlagByte(pixel[4])) \o write_byte(pixel[1])
        \o write_byte(pixel[2]) \o write_byte(pixel[3])

\* lines 105-109: one pixel of the buffer
PixelBytes(pixel) ==
    write_byte(FlagByte(pixel[4])) \o write_byte(pixel[3])
        \o write_byte(pixel[2]) \o write_byte(pixel[1])

\* lines 104-109: for pixel in pixels
RECURSIVE PixelLoop(_, _)
PixelLoop(buf, x) ==
    IF x = NUM_PIXELS THEN <<>> ELSE PixelBytes(buf[x]) \o PixelLoop(buf, x + 1)

\* lines 102-111: the writes of one transmission of buffer buf (slot -> pixel)
Transmission(buf) == sof \o PixelLoop(buf, 0) \o eof

\* What the chain receives from events lo .. hi: the data level sampled at every
\* rising clock edge, with the levels the pins are left at.  The range is halved
\* rather than walked, which keeps the evaluation shallow, and each half's
\* result is bound as a value (l, r) so that it is worked out once.
RECURSIVE Sample(_, _, _, _, _)
Sample(ev, lo, hi, dat, clk) ==
    IF lo > hi THEN [bits |-> <<>>, dat |-> dat, clk |-> clk]
    ELSE IF lo = hi
    THEN IF ev[lo].op # "write" THEN [bits |-> <<>>, dat |-> dat, clk |-> clk]
         ELSE IF ev[lo].a = DAT THEN [bits |-> <<>>, dat |-> ev[lo].b, clk |-> clk]
         ELSE IF ev[lo].b = 1 /\ clk = 0 THEN [bits |-> <<dat>>, dat |-> dat, clk |-> 1]
         ELSE [bits |-> <<>>, dat |-> dat, clk |-> ev[lo].b]
    ELSE CHOOSE res \in
             UNION { { [bits |-> l.bits \o r.bits, dat |-> r.dat, clk |-> r.clk] :
                         r \in {Sample(ev, (lo + hi) \div 2 + 1, hi, l.dat, l.clk)} } :
                     l \in {Sample(ev, lo, (lo + hi) \div 2, dat, clk)} } : TRUE

\* The value of bits i .. i+7 of a bit sequence, first bit most significant
ByteAt(bits, i) ==
    128 * bits[i] + 64 * bits[i + 1] + 32 * bits[i + 2] + 16 * bits[i + 3]
        + 8 * bits[i + 4] + 4 * bits[i + 5] + 2 * bits[i + 6] + bits[i + 7]

\* The four bytes of LED x (0-based) in the received bits, after the start frame
LedFrame(bits, x) ==
    << ByteAt(bits, 33 + 32 * x), ByteAt(bits, 41 + 32 * x),
       ByteAt(bits, 49 + 32 * x), ByteAt(bits, 57 + 32 * x) >>

\* The LED frames a full transmission clocks into the chain
Received(ev) ==
    CHOOSE frames \in { [x \in Slots |-> LedFrame(bits, x)] :
                            bits \in {Sample(ev, 1, Len(ev), 0, 0).bits} } : TRUE

\* ------------------------------------------------------- the driver state
\* The driver's globals and the lgpio state they act on, as one record, so
\* that a function calling another (set_all, _exit) composes them.
Cur == [pixels |-> pixels, heap |-> heap, gpio_setup |-> gpio_setup,
        clear_on_exit |-> clear_on_exit, handle |-> handle,
        registered |-> registered, opened |-> opened, closes |-> closes,
        lines |-> lines]

\* The pixel values of a state, slot by slot
Buffer(d) == [x \in Slots |-> d.heap[d.pixels[x]]]

\* A call's outcome: the state it leaves, the lgpio events it made, how it ended
Outcome(d, ev, res) == [d |-> d, ev |-> ev, res |-> res]

\* set_pixel storing the channel values as they come, unmasked
set_pixel_unmasked(d, x, r, g, b, brightness) ==
    IF ~ValidIndex(x) THEN Outcome(d, <<>>, "IndexError")
    ELSE LET i == Index(x)
             br == IF brightness = None THEN d.heap[d.pixels[i]][4]
                   ELSE Quantize(brightness[1])
         IN  Outcome([d EXCEPT !.pixels[i] = Own(i), !.heap[Own(i)] = <<r, g, b, br>>],
                     <<>>, "ok")

\* set_pixel writing into the list the slot refers to, instead of a new one
set_pixel_in_place(d, x, r, g, b, brightness) ==
    IF ~ValidIndex(x) THEN Outcome(d, <<>>, "IndexError")
    ELSE LET i == Index(x)
             br == IF brightness = None THEN d.heap[d.pixels[i]][4]
                   ELSE Quantize(brightness[1])
         IN  Outcome([d EXCEPT !.heap[d.pixels[i]] = <<r % 256, g % 256, b % 256, br>>],
                     <<>>, "ok")

\* set_pixel falling back on the default brightness when none is passed
set_pixel_default(d, x, r, g, b, brightness) ==
    IF ~ValidIndex(x) THEN Outcome(d, <<>>, "IndexError")
    ELSE LET i == Index(x)
             br == IF brightness = None THEN BRIGHTNESS ELSE Quantize(brightness[1])
         IN  Outcome([d EXCEPT !.pixels[i] = Own(i),
                               !.heap[Own(i)] = <<r % 256, g % 256, b % 256, br>>],
                     <<>>, "ok")

\* lines 134-150
set_pixel(d, x, r, g, b, brightness) ==
    IF ~ValidIndex(x) THEN Outcome(d, <<>>, "IndexError")
    ELSE LET i == Index(x)
             br == IF brightness = None THEN d.heap[d.pixels[i]][4]
                   ELSE Quantize(brightness[1])
         IN  Outcome([d EXCEPT !.pixels[i] = Own(i),
                               !.heap[Own(i)] = <<r % 256, g % 256, b % 256, br>>],
                     <<>>, "ok")

\* lines 123-124: for x in range(NUM_PIXELS): set_pixel(x, r, g, b, brightness)
RECURSIVE set_all_loop(_, _, _, _, _, _)
set_all_loop(d, x, r, g, b, brightness) ==
    IF x = NUM_PIXELS THEN Outcome(d, <<>>, "ok")
    ELSE LET o == set_pixel(d, x, r, g, b, brightness)
         IN  IF o.res # "ok" THEN o
             ELSE set_all_loop(o.d, x + 1, r, g, b, brightness)

set_all(d, r, g, b, brightness) == set_all_loop(d, 0, r, g, b, brightness)

\* clear putting the default pixel back, brightness included
RECURSIVE clear_loop_reset(_, _)
clear_loop_reset(d, x) ==
    IF x = NUM_PIXELS THEN d
    ELSE clear_loop_reset([d EXCEPT !.heap[d.pixels[x]] = DefaultPixel], x + 1)

\* lines 53-54: for x in range(NUM_PIXELS): pixels[x][0:3] = [0, 0, 0]  (in place)
RECURSIVE clear_loop(_, _)
clear_loop(d, x) ==
    IF x = NUM_PIXELS THEN d
    ELSE clear_loop([d EXCEPT !.heap[d.pixels[x]] = <<0, 0, 0, @[4]>>], x + 1)

\* clear sending the cleared buffer out at once
clear_and_show(d) ==
    Outcome(clear_loop(d, 0), Transmission(Buffer(clear_loop(d, 0))), "ok")

clear(d) == Outcome(clear_loop(d, 0), <<>>, "ok")

\* lines 48-49: for x in range(NUM_PIXELS): pixels[x][3] = ...  (in place)
RECURSIVE set_brightness_loop(_, _, _)
set_brightness_loop(d, x, q) ==
    IF x = NUM_PIXELS THEN d
    ELSE set_brightness_loop(
             [d EXCEPT !.heap[d.pixels[x]] = <<@[1], @[2], @[3], q>>], x + 1, q)

\* set_brightness with the range test after the loop
set_brightness_late_check(d, brightness) ==
    Outcome(set_brightness_loop(d, 0, Quantize(brightness)), <<>>,
            IF OutOfRange(brightness) THEN "ValueError" ELSE "ok")

set_brightness(d, brightness) ==
    IF OutOfRange(brightness) THEN Outcome(d, <<>>, "ValueError")
    ELSE Outcome(set_brightness_loop(d, 0, Quantize(brightness)), <<>>, "ok")

\* lines 163-164
set_clear_on_exit(d, value) == Outcome([d EXCEPT !.clear_on_exit = value], <<>>, "ok")

\* get_pixel handing back the stored 5-bit value as it is
get_pixel_raw(d, x) == d.heap[d.pixels[Index(x)]]

\* lines 129-132: (r, g, b, round(brightness / 31.0, 3)), the last in thousandths.
\* 2000 * q is even and 31 * odd is odd, so q / 31 is never a tie at 3 decimals.
get_pixel(d, x) ==
    LET p == d.heap[d.pixels[Index(x)]]
    IN  <<p[1], p[2], p[3], (2000 * p[4] + 31) \div 62>>

\* --------------------------------------------------------------- lgpio
\* lines 11-17: the number of the first gpiochip, in sorted path order, whose
\* label holds 'pinctrl-rp1'; 0 when there is none.  labels: <<number, is_rp1>>
RECURSIVE find_rp1_chip_loop(_, _)
find_rp1_chip_loop(labels, i) ==
    IF i > Len(labels) THEN 0
    ELSE IF labels[i][2] THEN labels[i][1]
    ELSE find_rp1_chip_loop(labels, i + 1)

find_rp1_chip(labels) == find_rp1_chip_loop(labels, 1)

\* lgpio.gpiochip_open: a fresh handle
gpiochip_open(d) ==
    [d EXCEPT !.opened = @ + 1, !.closes = @ @@ ((d.opened + 1) :> 0),
              !.handle = Some(d.opened + 1)]

\* lgpio.gpiochip_close(h): the handle is closed and its lines are released
gpiochip_close(d, h) ==
    [d EXCEPT !.closes[h] = @ + 1, !.lines = {l \in @ : l[1] # h}]

\* a refused claim raised at once, with no free and no second request
claim_no_retry(d, pin, granted1, granted2) ==
    IF granted1
    THEN Outcome([d EXCEPT !.lines = @ \cup {<<d.handle[1], pin>>}],
                 <<Ev("claim", pin, 1)>>, "ok")
    ELSE Outcome(d, <<Ev("claim", pin, 0)>>, "lgpio.error")

\* lines 89-93 and 94-98: claim, and on lgpio.error free and claim once more.
\* granted1, granted2: whether the kernel grants the first and the second request.
claim_with_retry(d, pin, granted1, granted2) ==
    LET h == d.handle[1]
        got == [d EXCEPT !.lines = @ \cup {<<h, pin>>}]
        freed == [d EXCEPT !.lines = @ \ {<<h, pin>>}]
    IN  IF granted1 THEN Outcome(got, <<Ev("claim", pin, 1)>>, "ok")
        ELSE IF granted2
             THEN Outcome(got, <<Ev("claim", pin, 0), Ev("free", pin, 0),
                                 Ev("claim", pin, 1)>>, "ok")
             ELSE Outcome(freed, <<Ev("claim", pin, 0), Ev("free", pin, 0),
                                   Ev("claim", pin, 0)>>, "lgpio.error")

\* the initialisation with line 100 left out: _gpio_setup stays False
show_setup_again(d, labels, grants) ==
    LET chip == find_rp1_chip(labels)
        d1 == gpiochip_open(d)
        dat == claim_with_retry(d1, DAT, grants.dat1, grants.dat2)
        clk == claim_with_retry(dat.d, CLK, grants.clk1, grants.clk2)
        head == <<Ev("resolve", chip, 0), Ev("open", chip, d1.handle[1])>>
    IN  IF dat.res # "ok" THEN Outcome(dat.d, head \o dat.ev, dat.res)
        ELSE IF clk.res # "ok" THEN Outcome(clk.d, head \o dat.ev \o clk.ev, clk.res)
        ELSE Outcome([clk.d EXCEPT !.registered = @ + 1],
                     head \o dat.ev \o clk.ev \o <<Ev("register", 0, 0)>>, "ok")

\* the initialisation with line 100 moved ahead of the claims
show_setup_flag_first(d, labels, grants) ==
    LET chip == find_rp1_chip(labels)
        d1 == [gpiochip_open(d) EXCEPT !.gpio_setup = TRUE]
        dat == claim_with_retry(d1, DAT, grants.dat1, grants.dat2)
        clk == claim_with_retry(dat.d, CLK, grants.clk1, grants.clk2)
        head == <<Ev("resolve", chip, 0), Ev("open", chip, d1.handle[1])>>
    IN  IF dat.res # "ok" THEN Outcome(dat.d, head \o dat.ev, dat.res)
        ELSE IF clk.res # "ok" THEN Outcome(clk.d, head \o dat.ev \o clk.ev, clk.res)
        ELSE Outcome([clk.d EXCEPT !.registered = @ + 1],
                     head \o dat.ev \o clk.ev \o <<Ev("register", 0, 0)>>, "ok")

\* lines 87-100: the lazy initialisation; grants: what the kernel answers to the
\* claim requests, [dat1, dat2, clk1, clk2]
show_setup(d, labels, grants) ==
    LET chip == find_rp1_chip(labels)
        d1 == gpiochip_open(d)
        dat == claim_with_retry(d1, DAT, grants.dat1, grants.dat2)
        clk == claim_with_retry(dat.d, CLK, grants.clk1, grants.clk2)
        head == <<Ev("resolve", chip, 0), Ev("open", chip, d1.handle[1])>>
    IN  IF dat.res # "ok" THEN Outcome(dat.d, head \o dat.ev, dat.res)
        ELSE IF clk.res # "ok" THEN Outcome(clk.d, head \o dat.ev \o clk.ev, clk.res)
        ELSE Outcome([clk.d EXCEPT !.registered = @ + 1, !.gpio_setup = TRUE],
                     head \o dat.ev \o clk.ev \o <<Ev("register", 0, 0)>>, "ok")

\* lines 102-111: lgpio.gpio_write(None, ...) raises before anything is written
show_transmit(d) ==
    IF d.handle = None THEN Outcome(d, <<>>, "TypeError")
    ELSE Outcome(d, Transmission(Buffer(d)), "ok")

\* lines 83-111
show(d, labels, grants) ==
    LET setup == IF d.gpio_setup THEN Outcome(d, <<>>, "ok")
                 ELSE show_setup(d, labels, grants)
        tx == show_transmit(setup.d)
    IN  IF setup.res # "ok" THEN setup
        ELSE Outcome(tx.d, setup.ev \o tx.ev, tx.res)

\* the hook with the flag not consulted: it always clears and shows
exit_hook_always(d, labels, grants) ==
    LET shown == show(clear(d).d, labels, grants)
        s == shown.d
    IN  IF shown.res # "ok" THEN shown
        ELSE IF s.handle # None
             THEN Outcome([gpiochip_close(s, s.handle[1]) EXCEPT !.handle = None],
                          shown.ev \o <<Ev("close", 0, s.handle[1])>>, "ok")
             ELSE shown

\* lines 30-37: _exit, the hook atexit runs
exit_hook(d, labels, grants) ==
    LET shown == IF d.clear_on_exit THEN show(clear(d).d, labels, grants)
                 ELSE Outcome(d, <<>>, "ok")
        s == shown.d
    IN  IF shown.res # "ok" THEN shown
        ELSE IF s.handle # None
             THEN Outcome([gpiochip_close(s, s.handle[1]) EXCEPT !.handle = None],
                          shown.ev \o <<Ev("close", 0, s.handle[1])>>, "ok")
             ELSE shown

\* ------------------------------------------------------------ the client
\* What a caller passes: indices on both sides of the list's ends, channel
\* values inside and outside 0 .. 255, fractions inside and outside [0, 1]
Indices == {-NUM_PIXELS - 1, -1, 0, NUM_PIXELS}
Colours == {<<10, 20, 30>>, <<266, -1, 511>>}
Fractions == {<<1, 20>>, <<1, 1>>, <<2, 1>>, <<-1, 2>>}
BrightnessArgs == {None, Some(<<1, 20>>), Some(<<1, 1>>), Some(<<2, 1>>)}

\* What the kernel answers to the claim requests of one initialisation: an
\* answer to a request that is not made is left out (taken as granted)
Granted == [dat1 |-> TRUE, dat2 |-> TRUE, clk1 |-> TRUE, clk2 |-> TRUE]
Grants ==
    {g \in [dat1 : BOOLEAN, dat2 : BOOLEAN, clk1 : BOOLEAN, clk2 : BOOLEAN] :
        /\ g.dat1 => g.dat2
        /\ g.clk1 => g.clk2
        /\ ~g.dat2 => g.clk1}

\* The gpiochip labels under /sys/bus/gpio/devices, in sorted path order:
\* the RP1 as gpiochip4, behind another controller
Labels == {<<<<0, FALSE>>, <<4, TRUE>>>>}

\* The call recorded in `last`
CallRec(op, res, x, br, ret) ==
    [op |-> op, res |-> res, x |-> x, c |-> <<>>, br |-> br, ret |-> ret]

Count(ev, op, pin) == Cardinality({i \in 1 .. Len(ev) : ev[i].op = op /\ ev[i].a = pin})
CountOp(ev, op) == Cardinality({i \in 1 .. Len(ev) : ev[i].op = op})
HasWrites(ev) == \E i \in 1 .. Len(ev) : ev[i].op = "write"
Raised(ev) == \E i \in 1 .. Len(ev) : ev[i].op = "claim" /\ ev[i].b = 0

\* The variables after a call with outcome o that made `shows` calls of show()
CommitState(d) ==
    /\ pixels' = d.pixels
    /\ heap' = d.heap
    /\ gpio_setup' = d.gpio_setup
    /\ clear_on_exit' = d.clear_on_exit
    /\ handle' = d.handle
    /\ registered' = d.registered
    /\ opened' = d.opened
    /\ closes' = d.closes
    /\ lines' = d.lines

Commit(o, shows) ==
    /\ CommitState(o.d)
    /\ wire' = o.ev
    /\ latched' = IF HasWrites(o.ev) THEN Received(o.ev) ELSE latched
    /\ nShow' = nShow + shows
    /\ nFrames' = nFrames + (IF HasWrites(o.ev) THEN 1 ELSE 0)
    /\ nInit' = [resolve |-> nInit.resolve + CountOp(o.ev, "resolve"),
                 open |-> nInit.open + CountOp(o.ev, "open"),
                 dat |-> nInit.dat + Count(o.ev, "claim", DAT),
                 clk |-> nInit.clk + Count(o.ev, "claim", CLK),
                 register |-> nInit.register + CountOp(o.ev, "register")]
    /\ failed' = (failed \/ Raised(o.ev) \/ o.res = "TypeError")

Init ==
    /\ pixels = [x \in Slots |-> Shared]
    /\ heap = [ref \in Refs |-> DefaultPixel]
    /\ gpio_setup = FALSE
    /\ clear_on_exit = TRUE
    /\ handle = None
    /\ registered = 0
    /\ opened = 0
    /\ closes = <<>>
    /\ lines = {}
    /\ proc = "running"
    /\ calls = 0
    /\ last = CallRec("none", "ok", 0, None, <<>>)
    /\ wire = <<>>
    /\ latched = <<>>
    /\ nShow = 0
    /\ nFrames = 0
    /\ nInit = [resolve |-> 0, open |-> 0, dat |-> 0, clk |-> 0, register |-> 0]
    /\ failed = FALSE
    /\ hookRuns = 0
    /\ pc = "none"
    /\ running = TRUE
    /\ handlers = {}
    /\ tick = 0
    /\ pending = <<>>
    /\ retTo = "none"
    /\ sigAt = "none"
    /\ probed = "none"

\* The client may call while the process runs, and from an exit handler that
\* atexit runs after the driver's own
MayCall == proc = "running" /\ calls < MaxCalls
MayCallLate == proc = "atexit" /\ calls < MaxCalls

Called == calls' = calls + 1 /\ UNCHANGED <<proc, hookRuns, dmnVars>>

CallSetPixel ==
    /\ MayCall
    /\ \E x \in Indices, c \in Colours, br \in BrightnessArgs :
          LET o == set_pixel(Cur, x, c[1], c[2], c[3], br)
          IN  /\ Commit(o, 0)
              /\ last' = [CallRec("set_pixel", o.res, x, br, <<>>) EXCEPT !.c = c]
    /\ Called

CallSetAll ==
    /\ MayCall
    /\ \E c \in Colours, br \in BrightnessArgs :
          LET o == set_all(Cur, c[1], c[2], c[3], br)
          IN  /\ Commit(o, 0)
              /\ last' = [CallRec("set_all", o.res, 0, br, <<>>) EXCEPT !.c = c]
    /\ Called

CallClear ==
    /\ MayCall
    /\ Commit(clear(Cur), 0)
    /\ last' = CallRec("clear", "ok", 0, None, <<>>)
    /\ Called

CallSetBrightness ==
    /\ MayCall
    /\ \E f \in Fractions :
          LET o == set_brightness(Cur, f)
          IN  Commit(o, 0) /\ last' = CallRec("set_brightness", o.res, 0, Some(f), <<>>)
    /\ Called

CallSetClearOnExit ==
    /\ MayCall
    /\ \E value \in BOOLEAN :
          /\ Commit(set_clear_on_exit(Cur, value), 0)
          /\ last' = CallRec("set_clear_on_exit", "ok", 0, None, <<>>)
    /\ Called

CallGetPixel ==
    /\ MayCall
    /\ \E x \in Indices :
          /\ Commit(Outcome(Cur, <<>>, IF ValidIndex(x) THEN "ok" ELSE "IndexError"), 0)
          /\ last' = CallRec("get_pixel", IF ValidIndex(x) THEN "ok" ELSE "IndexError",
                             x, None, IF ValidIndex(x) THEN get_pixel(Cur, x) ELSE <<>>)
    /\ Called

\* show() when the driver is set up reads neither the labels nor any grant
Env == IF gpio_setup THEN Labels \X {Granted} ELSE Labels \X Grants

CallShow ==
    /\ MayCall \/ MayCallLate
    /\ \E e \in Env :
          LET o == show(Cur, e[1], e[2])
          IN  Commit(o, 1) /\ last' = CallRec("show", o.res, 0, None, <<>>)
    /\ Called

\* The interpreter ends: atexit runs every registered handler
AtExit ==
    /\ proc = "running"
    /\ proc' = "atexit"
    /\ IF registered > 0
       THEN \E e \in Env :
               LET o == exit_hook(Cur, e[1], e[2])
               IN  /\ Commit(o, IF clear_on_exit THEN 1 ELSE 0)
                   /\ last' = CallRec("_exit", o.res, 0, None, <<>>)
                   /\ hookRuns' = hookRuns + 1
       ELSE UNCHANGED <<drvVars, envVars, obsVars, last>>
    /\ UNCHANGED <<calls, dmnVars>>

\* The process is gone
Finish ==
    /\ proc = "atexit"
    /\ proc' = "finished"
    /\ UNCHANGED <<drvVars, envVars, obsVars, last, calls, dmnVars>>

Next ==
    \/ CallSetPixel
    \/ CallSetAll
    \/ CallClear
    \/ CallSetBrightness
    \/ CallSetClearOnExit
    \/ CallGetPixel
    \/ CallShow
    \/ AtExit
    \/ Finish

Spec == Init /\ [][Next]_vars

\* ----------------------------------------------- a client of the buffer
\* A client that only works on the pixel buffer and never shows it: longer
\* call sequences, over the same arguments
MayOp == proc = "running" /\ calls < MaxOps

OpSetPixel ==
    /\ MayOp
    /\ \E x \in Indices, c \in Colours, br \in BrightnessArgs :
          LET o == set_pixel(Cur, x, c[1], c[2], c[3], br)
          IN  /\ Commit(o, 0)
              /\ last' = [CallRec("set_pixel", o.res, x, br, <<>>) EXCEPT !.c = c]
    /\ Called

OpSetAll ==
    /\ MayOp
    /\ \E c \in Colours, br \in BrightnessArgs :
          LET o == set_all(Cur, c[1], c[2], c[3], br)
          IN  /\ Commit(o, 0)
              /\ last' = [CallRec("set_all", o.res, 0, br, <<>>) EXCEPT !.c = c]
    /\ Called

OpClear ==
    /\ MayOp
    /\ Commit(clear(Cur), 0)
    /\ last' = CallRec("clear", "ok", 0, None, <<>>)
    /\ Called

OpSetBrightness ==
    /\ MayOp
    /\ \E f \in Fractions :
          LET o == set_brightness(Cur, f)
          IN  Commit(o, 0) /\ last' = CallRec("set_brightness", o.res, 0, Some(f), <<>>)
    /\ Called

OpGetPixel ==
    /\ MayOp
    /\ \E x \in Indices :
          /\ Commit(Outcome(Cur, <<>>, IF ValidIndex(x) THEN "ok" ELSE "IndexError"), 0)
          /\ last' = CallRec("get_pixel", IF ValidIndex(x) THEN "ok" ELSE "IndexError",
                             x, None, IF ValidIndex(x) THEN get_pixel(Cur, x) ELSE <<>>)
    /\ Called

BufferNext ==
    \/ OpSetPixel
    \/ OpSetAll
    \/ OpClear
    \/ OpSetBrightness
    \/ OpGetPixel

SpecBuffer == Init /\ [][BufferNext]_vars

\* ------------------------------------------------------ the status daemon
\* blinkt_status.py.  main() runs line by line; a show() it calls makes its pin
\* writes one at a time, so that a signal can arrive between any two of them.
STATUS_BRIGHTNESS == <<1, 20>>
POLL_INTERVAL == 2
CPU_COLORS == << <<0, 255, 0>>, <<0, 255, 0>>, <<255, 255, 0>>, <<255, 255, 0>>,
                 <<255, 100, 0>>, <<255, 100, 0>>, <<255, 0, 0>> >>

\* What a probe (systemctl, iw) comes back with: the expected answer, another
\* one, or an exception (an error, a timeout); psutil's CPU percentage, one
\* that lights some LEDs of the bar and leaves the others dark
Probes == {"yes", "no", "error"}
CpuPercents == {40}

\* round(n / d), d > 0, n >= 0: to the nearest, a tie to the even one
Round(n, d) ==
    LET q == n \div d
        r == n % d
    IN  IF 2 * r < d THEN q
        ELSE IF 2 * r > d THEN q + 1
        ELSE IF q % 2 = 0 THEN q ELSE q + 1

\* a probe that takes only a clean negative answer for False
check_fn_strict(probe) == probe # "no"

\* lines 46-67: wifi_connected / ap_active: any failure of the query is False
check_fn(probe) == probe = "yes"

\* lines 75-78
status_led(d, connected) ==
    IF connected THEN set_pixel(d, 0, 255, 255, 255, Some(STATUS_BRIGHTNESS)).d
    ELSE set_pixel(d, 0, 255, 0, 0, Some(STATUS_BRIGHTNESS)).d

\* lines 84-87: for i in range(7): if i < lit_count: set_pixel(i + 1, ...)
RECURSIVE cpu_bar(_, _, _)
cpu_bar(d, i, lit_count) ==
    IF i = 7 THEN d
    ELSE IF i < lit_count
    THEN cpu_bar(set_pixel(d, i + 1, CPU_COLORS[i + 1][1], CPU_COLORS[i + 1][2],
                           CPU_COLORS[i + 1][3], Some(STATUS_BRIGHTNESS)).d,
                 i + 1, lit_count)
    ELSE cpu_bar(d, i + 1, lit_count)

DInit ==
    /\ Init!1 /\ Init!2 /\ Init!3 /\ Init!4 /\ Init!5 /\ Init!6 /\ Init!7
    /\ Init!8 /\ Init!9 /\ Init!10 /\ Init!11 /\ Init!12 /\ Init!13
    /\ Init!14 /\ Init!15 /\ Init!16 /\ Init!17 /\ Init!18 /\ Init!19
    /\ pc = "l93"
    /\ running = TRUE
    /\ handlers = {}
    /\ tick = 0
    /\ pending = <<>>
    /\ retTo = "none"
    /\ sigAt = "none"
    /\ probed = "none"

\* A step of main() from line `from` to line `to` that touches no driver state
Goto(from, to) == pc = from /\ pc' = to

\* line 93
D_InstallSigterm ==
    /\ Goto("l93", "l94")
    /\ handlers' = handlers \cup {"SIGTERM"}
    /\ UNCHANGED <<drvVars, envVars, obsVars, cliVars, running, tick, pending, retTo, sigAt, probed>>

\* line 94
D_InstallSigint ==
    /\ Goto("l94", "l96")
    /\ handlers' = handlers \cup {"SIGINT"}
    /\ UNCHANGED <<drvVars, envVars, obsVars, cliVars, running, tick, pending, retTo, sigAt, probed>>

\* line 96
D_SetClearOnExit ==
    /\ Goto("l96", "l99")
    /\ CommitState(set_clear_on_exit(Cur, TRUE).d)
    /\ UNCHANGED <<obsVars, cliVars, running, handlers, tick, pending, retTo, sigAt, probed>>

\* lines 99-106: is_router() picks the probe; both probes answer alike
D_Role ==
    /\ Goto("l99", "l108")
    /\ UNCHANGED <<drvVars, envVars, obsVars, cliVars, running, handlers, tick, pending, retTo, sigAt, probed>>

\* the loop test taken for true whatever _running is: while True
D_While_true ==
    /\ pc = "l108"
    /\ pc' = "l72"
    /\ UNCHANGED <<drvVars, envVars, obsVars, cliVars, running, handlers, tick, pending, retTo, sigAt, probed>>

\* line 108: while _running
D_While ==
    /\ pc = "l108"
    /\ pc' = IF running THEN "l72" ELSE "l116"
    /\ UNCHANGED <<drvVars, envVars, obsVars, cliVars, running, handlers, tick, pending, retTo, sigAt, probed>>

\* line 72: update_leds begins with blinkt.clear()
D_UpdateClear ==
    /\ Goto("l72", "l75")
    /\ CommitState(clear(Cur).d)
    /\ UNCHANGED <<obsVars, cliVars, running, handlers, tick, pending, retTo, sigAt, probed>>

\* lines 75-78: LED 0 by check_fn()
D_StatusLed ==
    /\ Goto("l75", "l81")
    /\ \E probe \in Probes :
          /\ CommitState(status_led(Cur, check_fn(probe)))
          /\ probed' = probe
    /\ UNCHANGED <<obsVars, cliVars, running, handlers, tick, pending, retTo, sigAt>>

\* lines 81-87: LEDs 1-7 by the CPU load
D_CpuBar ==
    /\ Goto("l81", "l89")
    /\ \E cpu \in CpuPercents : CommitState(cpu_bar(Cur, 0, Round(cpu * 7, 100)))
    /\ UNCHANGED <<obsVars, cliVars, running, handlers, tick, pending, retTo, sigAt, probed>>

\* Where a show() called at a line returns to
ShowReturn == [l89 |-> "l111", l117 |-> "l118", l34 |-> "l35"]

\* lines 89, 117 and 34: show() is entered; it sets the driver up if it has to
\* (an lgpio.error leaves main() through every frame, and atexit runs) and has
\* the transmission of the buffer before it
D_ShowCall ==
    /\ pc \in {"l89", "l117", "l34"}
    /\ \E e \in Env :
          LET setup == IF gpio_setup THEN Outcome(Cur, <<>>, "ok")
                       ELSE show_setup(Cur, e[1], e[2])
              tx == show_transmit(setup.d)
          IN  /\ CommitState(setup.d)
              /\ wire' = setup.ev
              /\ failed' = (failed \/ Raised(setup.ev) \/ tx.res = "TypeError")
              /\ IF setup.res = "ok" /\ tx.res = "ok"
                 THEN pc' = "show" /\ pending' = tx.ev /\ retTo' = ShowReturn[pc]
                 ELSE pc' = (IF pc = "l34" THEN "dead" ELSE "atexit")
                      /\ pending' = <<>> /\ retTo' = "none"
    /\ tick' = 0
    /\ UNCHANGED <<latched, nShow, nFrames, nInit, hookRuns, proc, calls, last,
                   running, handlers, sigAt, probed>>

\* lines 58-62, 68-72, 76-80: the next lgpio.gpio_write of the show() in progress
D_ShowWrite ==
    /\ pc = "show"
    /\ pending # <<>>
    /\ wire' = Append(wire, Head(pending))
    /\ pending' = Tail(pending)
    /\ UNCHANGED <<drvVars, envVars, latched, nShow, nFrames, nInit, failed, hookRuns,
                   cliVars, pc, running, handlers, tick, retTo, sigAt, probed>>

\* show() returns
D_ShowDone ==
    /\ pc = "show"
    /\ pending = <<>>
    /\ pc' = retTo
    /\ retTo' = "none"
    /\ latched' = Received(wire)
    /\ UNCHANGED <<drvVars, envVars, wire, nShow, nFrames, nInit, failed, hookRuns,
                   cliVars, running, handlers, tick, pending, sigAt, probed>>

\* lines 111-114: for _ in range(int(POLL_INTERVAL / 0.1)): break or sleep(0.1)
D_Wait ==
    /\ pc = "l111"
    /\ IF tick < POLL_INTERVAL * 10 /\ running
       THEN tick' = tick + 1 /\ pc' = "l111"
       ELSE tick' = 0 /\ pc' = "l108"
    /\ UNCHANGED <<drvVars, envVars, obsVars, cliVars, running, handlers, pending, retTo, sigAt, probed>>

\* line 116
D_FinalClear ==
    /\ Goto("l116", "l117")
    /\ CommitState(clear(Cur).d)
    /\ UNCHANGED <<obsVars, cliVars, running, handlers, tick, pending, retTo, sigAt, probed>>

\* line 118: main() returns and the interpreter ends
D_Return ==
    /\ Goto("l118", "atexit")
    /\ UNCHANGED <<drvVars, envVars, obsVars, cliVars, running, handlers, tick, pending, retTo, sigAt, probed>>

\* atexit runs _exit if it is registered; lines 32-33
D_AtExit ==
    /\ pc = "atexit"
    /\ IF registered > 0
       THEN /\ hookRuns' = hookRuns + 1
            /\ IF clear_on_exit
               THEN pc' = "l34" /\ CommitState(clear(Cur).d)
               ELSE pc' = "l35" /\ UNCHANGED <<drvVars, envVars>>
       ELSE pc' = "dead" /\ UNCHANGED <<drvVars, envVars, hookRuns>>
    /\ UNCHANGED <<wire, latched, nShow, nFrames, nInit, failed, cliVars,
                   running, handlers, tick, pending, retTo, sigAt, probed>>

\* lines 35-37
D_HookClose ==
    /\ Goto("l35", "dead")
    /\ IF handle # None
       THEN /\ CommitState([gpiochip_close(Cur, handle[1]) EXCEPT !.handle = None])
            /\ wire' = Append(wire, Ev("close", 0, handle[1]))
       ELSE UNCHANGED <<drvVars, envVars, wire>>
    /\ UNCHANGED <<latched, nShow, nFrames, nInit, failed, hookRuns, cliVars,
                   running, handlers, tick, pending, retTo, sigAt, probed>>

\* the handler leaving the process by sys.exit() instead of clearing _running
D_Signal_exit ==
    /\ pc \notin {"none", "dead", "killed"}
    /\ \E sig \in {"SIGTERM", "SIGINT"} :
          /\ pc' = IF sig \in handlers \/ sig = "SIGINT" THEN "atexit" ELSE "killed"
          /\ UNCHANGED <<running, sigAt>>
    /\ UNCHANGED <<drvVars, envVars, obsVars, cliVars, handlers, tick, pending, retTo, probed>>

\* Whether a transmission is in progress, some of it written and some not
MidFrame == pc = "show" /\ pending # <<>> /\ HasWrites(wire)

\* lines 29-31 and Python's defaults: a signal reaches the process.  With
\* _signal_handler installed for it, the handler runs between two steps of
\* main() and clears _running.  Without, SIGINT raises KeyboardInterrupt at the
\* point main() is at, which ends main() and lets atexit run, and SIGTERM ends
\* the process there and then.
D_Signal ==
    /\ pc \notin {"none", "dead", "killed"}
    /\ \E sig \in {"SIGTERM", "SIGINT"} :
          IF sig \in handlers
          THEN /\ running' = FALSE
               /\ sigAt' = IF sigAt # "none" THEN sigAt
                           ELSE IF MidFrame THEN "frame" ELSE "line"
               /\ UNCHANGED pc
          ELSE /\ pc' = IF sig = "SIGINT" THEN "atexit" ELSE "killed"
               /\ UNCHANGED <<running, sigAt>>
    /\ UNCHANGED <<drvVars, envVars, obsVars, cliVars, handlers, tick, pending, retTo, probed>>

DNext ==
    \/ D_InstallSigterm
    \/ D_InstallSigint
    \/ D_SetClearOnExit
    \/ D_Role
    \/ D_While
    \/ D_UpdateClear
    \/ D_StatusLed
    \/ D_CpuBar
    \/ D_ShowCall
    \/ D_ShowWrite
    \/ D_ShowDone
    \/ D_Wait
    \/ D_FinalClear
    \/ D_Return
    \/ D_AtExit
    \/ D_HookClose
    \/ D_Signal

SpecDaemon == DInit /\ [][DNext]_vars

\* The steps main() and the exit handling take on their own: the interpreter
\* goes on running the program, and every sleep and every pin write returns
DProgram ==
    \/ D_InstallSigterm
    \/ D_InstallSigint
    \/ D_SetClearOnExit
    \/ D_Role
    \/ D_While
    \/ D_UpdateClear
    \/ D_StatusLed
    \/ D_CpuBar
    \/ D_ShowCall
    \/ D_ShowWrite
    \/ D_ShowDone
    \/ D_Wait
    \/ D_FinalClear
    \/ D_Return
    \/ D_AtExit
    \/ D_HookClose

SpecDaemonFair == DInit /\ [][DNext]_vars /\ WF_vars(DProgram)

\* ================================================================ claims

IsWrite(e) == e.op = "write"
Writes(ev) == SelectSeq(ev, IsWrite)
IsClk(e) == e.a = CLK
IsDat(e) == e.a = DAT
FramePulses == 32 + NUM_PIXELS * 32 + 36
IsClkHigh(e) == e.op = "write" /\ e.a = CLK /\ e.b = 1
ClockHighs(ev) == Len(SelectSeq(ev, IsClkHigh))
InitOps == {"resolve", "open", "claim", "free", "register"}

\* C1: in a run of k >= 1 show() calls in which no GPIO call has failed, the
\* controller resolution, the chip open, the claim of each pin and the
\* registration of the exit hook have each happened exactly once, in that
\* order at the head of the first call, ahead of its first pin write; a later
\* call makes none of them; and k full transmissions have been performed.
C1_LazyInitOnce ==
    (~failed /\ nShow >= 1) =>
        /\ nInit = [resolve |-> 1, open |-> 1, dat |-> 1, clk |-> 1, register |-> 1]
        /\ nFrames = nShow
        /\ last.op = "show" =>
              /\ ClockHighs(wire) = FramePulses
              /\ IF nShow = 1
                 THEN /\ <<wire[1].op, wire[2].op, wire[5].op>> = <<"resolve", "open", "register">>
                      /\ <<wire[3], wire[4]>> = <<Ev("claim", DAT, 1), Ev("claim", CLK, 1)>>
                      /\ \A i \in 6 .. Len(wire) : wire[i].op = "write"
                 ELSE \A i \in 1 .. Len(wire) : wire[i].op = "write"

C1_Witness ==
    ~failed /\ nShow = 2 /\ nFrames = 2 /\ last.op = "show" /\ last.res = "ok"

\* C2: every transmission show() makes is 32 + N*32 + 36 clock pulses, each a
\* clock-high write followed by a clock-low write, the clock low at the end;
\* the data line is written low, then come 32 pulses with no data write, then
\* N*32 pulses each behind one data write, then the data line is written low
\* and 36 pulses follow with no data write.
C2_FrameShape ==
    HasWrites(wire) =>
        LET w == Writes(wire)
            c == SelectSeq(w, IsClk)
            D == {i \in 1 .. Len(w) : w[i].a = DAT}
            end == 66 + 96 * NUM_PIXELS
        IN  /\ Len(c) = 2 * FramePulses
            /\ \A i \in 1 .. Len(c) : c[i].b = (IF i % 2 = 1 THEN 1 ELSE 0)
            /\ w[Len(w)] = Write(CLK, 0)
            /\ w[1] = Write(DAT, 0)
            /\ D \cap (2 .. 65) = {}
            /\ \A i \in 66 .. end - 1 : (i \in D) = ((i - 66) % 3 = 0)
            /\ w[end] = Write(DAT, 0)
            /\ D \cap (end + 1 .. Len(w)) = {}
            /\ Len(w) = end + 72

C2_Witness ==
    /\ last.op = "show" /\ last.res = "ok"
    /\ Len(Writes(wire)) = 66 + 96 * NUM_PIXELS + 72
    /\ \E x \in Slots : Pixel(x) # DefaultPixel

\* C3: what a show() has put on the wire, read as the chain reads it (`latched`:
\* the data level at each rising clock edge, first bit most significant), is
\* for LED x = 0..N-1 in order the four bytes 0b11100000 | brightness, blue,
\* green, red of pixel x.
C3_PixelBytes ==
    (last.op = "show" /\ last.res = "ok") =>
        latched = [x \in Slots |->
                      <<224 + Pixel(x)[4], Pixel(x)[3], Pixel(x)[2], Pixel(x)[1]>>]

C3_Witness ==
    /\ last.op = "show" /\ last.res = "ok"
    /\ Pixel(0) = <<10, 20, 30, 31>>
    /\ latched[0] = <<255, 30, 20, 10>>
    /\ latched[1] = <<224 + BRIGHTNESS, 0, 0, 0>>

\* C4: in the initialisation of show(), per pin, data then clock: a refused
\* first claim is followed by a free of the pin and one more claim; a granted
\* retry lets the initialisation go on, a refused retry ends the call with
\* the error; no pin is asked for more than twice.
ClaimsOf(ev, pin) == {i \in 1 .. Len(ev) : ev[i].op = "claim" /\ ev[i].a = pin}
Min(S) == CHOOSE i \in S : \A j \in S : i <= j
Max(S) == CHOOSE i \in S : \A j \in S : i >= j

ClaimPolicy(ev, pin, res, then) ==
    LET A == ClaimsOf(ev, pin)
        first == Min(A)
    IN  A # {} =>
          /\ Cardinality(A) <= 2
          /\ IF ev[first].b = 1
             THEN A = {first} /\ ev[first + 1].op = then
             ELSE /\ A = {first, first + 2}
                  /\ ev[first + 1] = Ev("free", pin, 0)
                  /\ IF ev[first + 2].b = 1
                     THEN ev[first + 3].op = then
                     ELSE Len(ev) = first + 2 /\ res = "lgpio.error"

C4_ClaimRetry ==
    last.op = "show" =>
        /\ ClaimPolicy(wire, DAT, last.res, "claim")
        /\ ClaimPolicy(wire, CLK, last.res, "register")
        /\ (last.res = "lgpio.error") =
              (\E pin \in {DAT, CLK} :
                  /\ Cardinality(ClaimsOf(wire, pin)) = 2
                  /\ wire[Max(ClaimsOf(wire, pin))].b = 0)
        /\ \A i \in ClaimsOf(wire, CLK) : ClaimsOf(wire, DAT) # {} /\ i > Max(ClaimsOf(wire, DAT))

C4_Witness ==
    /\ last.op = "show" /\ last.res = "lgpio.error"
    /\ wire[3] = Ev("claim", DAT, 0) /\ wire[5] = Ev("claim", DAT, 1)
    /\ wire[6] = Ev("claim", CLK, 0) /\ wire[8] = Ev("claim", CLK, 0)
    /\ Len(wire) = 8

\* C5: a step in which the exit hook runs (it is registered by a successful
\* show() only), by the flag in force at that step: with clear_on_exit it
\* zeroes r, g, b of every pixel, keeps every brightness, makes exactly one more
\* full transmission, whose blue, green and red bytes are all 0, and closes
\* the handle after the last write; without it it writes no pin and leaves the
\* buffer and what the chain shows as they were, and closes the handle.
HookStep == proc = "running" /\ proc' = "atexit" /\ registered > 0

C5_HookAction ==
    HookStep =>
        /\ hookRuns' = hookRuns + 1 /\ last'.res = "ok"
        /\ handle # None /\ handle' = None
        /\ closes' = [closes EXCEPT ![handle[1]] = 1]
        /\ wire'[Len(wire')] = Ev("close", 0, handle[1])
        /\ CountOp(wire', "close") = 1
        /\ \A i \in 1 .. Len(wire') - 1 : wire'[i].op = "write"
        /\ IF clear_on_exit
           THEN /\ \A x \in Slots : Pixel(x)' = <<0, 0, 0, Pixel(x)[4]>>
                /\ nFrames' = nFrames + 1
                /\ ClockHighs(wire') = FramePulses
                /\ latched' = [x \in Slots |-> <<224 + Pixel(x)[4], 0, 0, 0>>]
           ELSE /\ Len(wire') = 1
                /\ nFrames' = nFrames
                /\ \A x \in Slots : Pixel(x)' = Pixel(x)
                /\ latched' = latched

C5_ExitHook == [][C5_HookAction]_vars

\* The hook has run with the flag off, after one frame was shown: it sent no
\* frame of its own, left what the LEDs latched, and closed the chip handle
C5_Witness ==
    /\ last.op = "_exit" /\ ~clear_on_exit /\ hookRuns = 1
    /\ latched # <<>> /\ nFrames = 1
    /\ handle = None /\ Len(wire) = 1 /\ wire[1].op = "close"

\* C6: when the process has finished its exit handling, every chip handle the
\* driver opened has been closed exactly once and no claimed line is left.
C6_ReleasedOnce ==
    proc = "finished" =>
        /\ \A h \in 1 .. opened : closes[h] = 1
        /\ lines = {}

\* C7: a show() made after the exit hook has released the handle returns
\* having done nothing: no lgpio call, no change of the driver.
C7_NoOpAfterRelease ==
    (hookRuns > 0 /\ last.op = "show") =>
        /\ last.res = "ok"
        /\ wire = <<>>
        /\ handle = None
        /\ \A h \in 1 .. opened : closes[h] <= 1

\* C9: set_pixel with an index outside [0, N), above or below, ends in IndexError.
C9_IndexError ==
    (last.op = "set_pixel" /\ (last.x < 0 \/ last.x >= NUM_PIXELS)) =>
        last.res = "IndexError"

\* C10: set_pixel or set_all with a brightness fraction outside [0, 1] ends in
\* an error; the call does not return normally with a wrapped value stored.
C10_BrightnessRange ==
    (/\ last.op \in {"set_pixel", "set_all"}
     /\ last.br # None
     /\ OutOfRange(last.br[1])) => last.res # "ok"

\* ------------------------------------------------------------ the buffer
\* A step that is a call of API function op
CallOf(op) == calls' = calls + 1 /\ last'.op = op

\* The pixel in slot x after the step
PixelAfter(x) == heap'[pixels'[x]]

\* round(q / 31.0, 3) in thousandths, for q in 0 .. 31 (never a tie)
Thousandths(q) == (2000 * q + 31) \div 62

\* The 5-bit value of a fraction f >= 0 by truncation: the q with q <= 31 f < q + 1
Truncated(f) == (CHOOSE q \in 0 .. 62 : q * f[2] <= 31 * f[1] /\ 31 * f[1] < (q + 1) * f[2]) % 32

\* and by rounding to the nearest
Rounded(f) == Round(31 * f[1], f[2]) % 32

\* C11: a set_brightness(f) call with f < 0 or f > 1 ends in ValueError and
\* leaves every pixel as it was; with f in [0, 1] it returns, every pixel's
\* stored brightness is the one 5-bit value of f, and every pixel's r, g, b
\* are as they were.
C11_Action ==
    CallOf("set_brightness") =>
        LET f == last'.br[1]
        IN  IF f[1] < 0 \/ f[1] > f[2]
            THEN /\ last'.res = "ValueError"
                 /\ \A x \in Slots : Pixel(x)' = Pixel(x)
            ELSE /\ last'.res = "ok"
                 /\ \A x \in Slots :
                       Pixel(x)' = <<Pixel(x)[1], Pixel(x)[2], Pixel(x)[3], Truncated(f)>>

C11_SetBrightness == [][C11_Action]_vars

\* set_brightness(0.05) was made on a buffer in which pixel 0 has a colour and
\* a list of its own while the others still share the initial one
C11_Witness ==
    /\ last.op = "set_brightness" /\ last.res = "ok" /\ last.br = Some(<<1, 20>>)
    /\ pixels[0] = Own(0) /\ pixels[1] = Shared
    /\ Pixel(0) = <<10, 20, 30, 1>> /\ Pixel(1) = <<0, 0, 0, 1>>

\* The get_pixel(i) that follows a successful set_pixel(i, r, g, b, br)
RoundTrip == last.op = "set_pixel" /\ last.res = "ok" /\ last.br # None
             /\ CallOf("get_pixel") /\ last'.x = last.x

\* C12 as stated: for i in 0 .. N-1, get_pixel(i) right after set_pixel(i, r, g, b, br) returns
\* (r mod 256, g mod 256, b mod 256, q / 31 to 3 decimals) with q the 5 low bits
\* of 31 * br rounded to the nearest integer, and changes no state.
C12_RoundedAction ==
    (RoundTrip /\ last.x \in Slots) =>
        /\ last'.ret = <<last.c[1] % 256, last.c[2] % 256, last.c[3] % 256,
                         Thousandths(Rounded(last.br[1]))>>
        /\ UNCHANGED <<drvVars, envVars>>

C12_TruncatedAction ==
    RoundTrip =>
        /\ last'.ret = <<last.c[1] % 256, last.c[2] % 256, last.c[3] % 256,
                         Thousandths(Truncated(last.br[1]))>>
        /\ UNCHANGED <<drvVars, envVars>>

C13_Action ==
    /\ (CallOf("set_pixel") /\ last'.res = "ok" /\ last'.br = None) =>
          PixelAfter(Index(last'.x)) =
              <<last'.c[1] % 256, last'.c[2] % 256, last'.c[3] % 256,
                Pixel(Index(last'.x))[4]>>
    /\ CallOf("set_all") =>
          /\ last'.res = "ok"
          /\ \A x \in Slots :
                Pixel(x)' = <<last'.c[1] % 256, last'.c[2] % 256, last'.c[3] % 256,
                              IF last'.br = None THEN Pixel(x)[4]
                              ELSE Truncated(last'.br[1])>>

C13_BrightnessKept == [][C13_Action]_vars

\* set_all with no brightness was made on pixels of three different brightnesses
C13_Witness ==
    /\ last.op = "set_all" /\ last.br = None
    /\ Pixel(0)[4] = 31 /\ Pixel(1)[4] = BRIGHTNESS /\ Pixel(NUM_PIXELS - 1)[4] = 1
    /\ \A x \in Slots : Pixel(x)[1] = 10

\* C14: a clear() leaves r = g = b = 0 in every pixel and every pixel's stored
\* brightness as it was.
C14_Action ==
    CallOf("clear") => \A x \in Slots : Pixel(x)' = <<0, 0, 0, Pixel(x)[4]>>

C14_Clear == [][C14_Action]_vars

\* clear() was made on pixels of different brightnesses, some in lists of
\* their own and some in the shared one
C14_Witness ==
    /\ last.op = "clear" /\ calls = 3
    /\ pixels[0] = Own(0) /\ pixels[1] = Shared
    /\ Pixel(0) = <<0, 0, 0, 31>> /\ Pixel(1) = <<0, 0, 0, 1>>


\* C15: a call of set_pixel, set_all, clear, set_brightness, get_pixel or
\* set_clear_on_exit makes no lgpio call and leaves the driver's lifecycle
\* (set up or not, the handle, the hook's registration), the chip handles and
\* claimed lines, and what the LED chain shows as they were.
BufferOps == {"set_pixel", "set_all", "clear", "set_brightness", "get_pixel",
              "set_clear_on_exit"}

C15_Action ==
    (calls' = calls + 1 /\ last'.op \in BufferOps) =>
        /\ wire' = <<>>
        /\ UNCHANGED <<gpio_setup, handle, registered, envVars, latched, nShow, nFrames, nInit>>

C15_NoHardware == [][C15_Action]_vars

\* A frame is on the LEDs, and a set_pixel made since has changed pixel 0 in
\* the buffer only
C15_Witness ==
    /\ last.op = "set_pixel" /\ last.res = "ok" /\ gpio_setup /\ nFrames = 1
    /\ latched # <<>> /\ latched[0] = <<224 + BRIGHTNESS, 0, 0, 0>>
    /\ Pixel(0) = <<10, 20, 30, 31>>

\* C16: the buffer holds N pixels, each of r, g, b in 0 .. 255 and a stored
\* brightness in 0 .. 31.
C16_BufferShape ==
    /\ DOMAIN pixels = Slots
    /\ \A x \in Slots :
          /\ Len(Pixel(x)) = 4
          /\ \A k \in 1 .. 3 : Pixel(x)[k] \in 0 .. 255
          /\ Pixel(x)[4] \in 0 .. 31

\* set_pixel(0, 266, -1, 511, 2.0) was made, and a show() after it
C16_Witness ==
    /\ last.op = "show" /\ calls = 2
    /\ Pixel(0) = <<10, 255, 255, 30>>

\* LED 0 as update_leds sets it when the check fails, and as the chain gets it
RedPixel == <<255, 0, 0, Truncated(STATUS_BRIGHTNESS)>>
RedFrame == <<224 + Truncated(STATUS_BRIGHTNESS), 0, 0, 255>>

\* main() has left its while loop, or the process has ended
LoopLeft == pc \in {"l116", "l117", "l118", "atexit", "l34", "l35", "dead", "killed"}
            \/ (pc = "show" /\ retTo \in {"l118", "l35"})

\* C17: a connectivity query that fails (or answers anything but the expected)
\* counts as False: update_leds sets LED 0 red, the show() of that round sends
\* a frame with LED 0 red, and main() stays in its loop - it leaves the loop
\* only once _running is cleared or a GPIO call has raised - and goes from the
\* wait on to the next round.
C17_Action ==
    /\ (pc = "l75" /\ pc' = "l81" /\ probed' # "yes") => PixelAfter(0) = RedPixel
    /\ (pc = "show" /\ pc' = "l111" /\ probed # "yes") =>
          /\ latched'[0] = RedFrame
          /\ ClockHighs(wire') = FramePulses
    /\ (probed \in {"no", "error"} /\ running' /\ ~failed') => ~LoopLeft'
    /\ (pc = "l111" /\ pc' # "l111") => pc' = "l108"
    /\ (pc = "l108" /\ pc' # "l108" /\ running) => pc' = "l72"

C17_SoftFailure == [][C17_Action]_vars

\* The query of a round failed, the frame with LED 0 red is on the LEDs, and
\* the next round has begun
C17_Witness ==
    /\ pc = "l75" /\ probed = "error" /\ running
    /\ latched # <<>> /\ latched[0] = RedFrame
    /\ Pixel(0) = <<0, 0, 0, Truncated(STATUS_BRIGHTNESS)>>

\* C18: with both handlers installed, once a signal has cleared _running:
\* update_leds is entered only from the loop test with _running set, and
\* never again once the loop is left; the wait loop sleeps no further 0.1 s;
\* the process ends; and, if no GPIO call has raised, the frame on the LEDs
\* when it has ended has r = g = b = 0 on every pixel.
Installed == handlers = {"SIGTERM", "SIGINT"}

C18_Action ==
    /\ (pc' = "l72" /\ pc # "l72") => pc = "l108" /\ running
    /\ LoopLeft => LoopLeft'
    /\ (pc = "l111" /\ ~running) => tick' = tick \/ (tick' = 0 /\ pc' = "l108")
    /\ (pc = "l108" /\ ~running /\ pc' # "l108") => pc' = "l116"
    /\ ~running => ~running'

C18_DarkAtEnd ==
    (pc = "dead" /\ Installed /\ ~running /\ ~failed) =>
        /\ latched # <<>>
        /\ \A x \in Slots : <<latched[x][2], latched[x][3], latched[x][4]>> = <<0, 0, 0>>
        /\ hookRuns = 1 /\ handle = None

C18_Shutdown ==
    /\ [][C18_Action]_vars
    /\ []C18_DarkAtEnd
    /\ (Installed /\ ~running) ~> (pc = "dead")

\* A signal came between two pin writes or lines of main(), in or after a
\* round that found the network up; the process has ended and the LEDs are dark
C18_Witness ==
    /\ pc = "dead" /\ sigAt = "line" /\ ~running /\ ~failed /\ hookRuns = 1
    /\ probed = "yes" /\ latched # <<>>
    /\ \A x \in Slots : <<latched[x][2], latched[x][3], latched[x][4]>> = <<0, 0, 0>>

\* C19: a show() that ends in lgpio.error leaves the setup flag unset and no
\* exit hook registered and has written no pin; and a show() made while the
\* flag is unset runs the initialisation from its start: the resolution, the
\* open of a new handle, the claim of the data pin and, unless that is refused
\* again, of the clock pin, and only then, with both granted, the frame.
C19_Action ==
    /\ (CallOf("show") /\ last'.res = "lgpio.error") =>
          /\ ~gpio_setup /\ ~gpio_setup'
          /\ registered' = 0
          /\ ~HasWrites(wire')
    /\ (CallOf("show") /\ ~gpio_setup) =>
          /\ <<wire'[1].op, wire'[2].op>> = <<"resolve", "open">>
          /\ wire'[2].b = opened + 1 /\ handle' = Some(opened + 1)
          /\ wire'[3].op = "claim" /\ wire'[3].a = DAT
          /\ (Count(wire', "claim", CLK) = 0) = (Len(wire') = 5 /\ wire'[5] = Ev("claim", DAT, 0))
          /\ IF last'.res = "ok"
             THEN /\ gpio_setup' /\ registered' = registered + 1
                  /\ CountOp(wire', "register") = 1
                  /\ ClockHighs(wire') = FramePulses
             ELSE last'.res = "lgpio.error"

C19_FailedInit == [][C19_Action]_vars

\* A show() failed on the clock pin, and the next one has run the whole
\* initialisation on a second handle and sent its frame
C19_Witness ==
    /\ last.op = "show" /\ last.res = "ok" /\ nShow = 2 /\ nFrames = 1
    /\ nInit.resolve = 2 /\ nInit.open = 2 /\ opened = 2 /\ handle = Some(2)
    /\ nInit.dat >= 2 /\ nInit.clk >= 3 /\ registered = 1 /\ gpio_setup

\* C20: a set_pixel(i, ...) that returns leaves what get_pixel(j) returns as it
\* was for every j other than i, and a show() leaves every pixel as it was.
C20_Action ==
    /\ (CallOf("set_pixel") /\ last'.res = "ok") =>
          /\ \A j \in Slots \ {Index(last'.x)} :
                /\ PixelAfter(j) = Pixel(j)
                /\ get_pixel(Cur', j) = get_pixel(Cur, j)
          /\ PixelAfter(Index(last'.x))[1] = last'.c[1] % 256
    /\ CallOf("show") => \A j \in Slots : PixelAfter(j) = Pixel(j)

C20_Independent == [][C20_Action]_vars

\* set_pixel(0, ...) was made on a buffer whose slots all held the one
\* replicated list, brightness set in place before: only pixel 0 has changed
C20_Witness ==
    /\ last.op = "set_pixel" /\ last.x = 0 /\ calls = 2
    /\ pixels[0] = Own(0) /\ \A j \in Slots \ {0} : pixels[j] = Shared
    /\ Pixel(0) = <<10, 20, 30, 1>>
    /\ \A j \in Slots \ {0} : Pixel(j) = <<0, 0, 0, 1>>

\* Outside a show() in progress nothing is left to write, and the wire holds
\* the writes of a whole frame or none: no frame was cut short
FramesWhole ==
    pc # "show" =>
        /\ pending = <<>>
        /\ ~HasWrites(wire) \/ ClockHighs(wire) = FramePulses

Ended == pc \in {"dead", "killed"}

\* C8 as stated: a SIGTERM or SIGINT delivered at any point of main() cuts no
\* frame short and lets no exit hook start over a transmission in progress,
\* and a process that has ended (with no GPIO call refused) has run the exit
\* hook exactly once.
C8_AnyPoint ==
    /\ FramesWhole
    /\ hookRuns <= 1
    /\ (Ended /\ ~failed) => hookRuns = 1

\* C8 amended: the same of every signal delivered once main() has installed
\* both handlers; a process ended by a signal that came before its handler was
\* installed has shown nothing and runs no exit hook; and the exit hook has run
\* exactly once in every ended process that registered it.
C8_SignalsHandled ==
    /\ FramesWhole
    /\ hookRuns <= 1
    /\ (Ended /\ ~failed /\ handlers = {"SIGTERM", "SIGINT"}) => hookRuns = 1
    /\ (Ended /\ handlers # {"SIGTERM", "SIGINT"}) =>
          hookRuns = 0 /\ latched = <<>> /\ ~gpio_setup /\ wire = <<>>
    /\ (Ended /\ registered > 0) => hookRuns = 1 /\ pc = "dead"
    /\ hookRuns > 0 => registered > 0 /\ pc \in {"l34", "show", "l35", "dead"}

\* A signal reached the handler in the middle of a frame, and the process has
\* ended with the hook run and all LEDs off
C8_Witness ==
    /\ pc = "dead" /\ sigAt = "frame" /\ hookRuns = 1 /\ ~running
    /\ latched # <<>> /\ \A x \in Slots : latched[x][2] = 0

====
